---- MODULE Spec2Model ----
(***************************************************************************)
(* ad3.c: the 3D advection-diffusion example.  The model covers main's     *)
(* option handling and grid set-up, the residual callback                  *)
(* FormFunctionLocal on one process's owned box, the flux limiters, and     *)
(* FormLayerUExact on one process's owned box.                             *)
(*                                                                         *)
(* A double is a pair <<n, d>>: the rational n/d in lowest terms with      *)
(* d > 0, or a non-finite value with d = 0 (<<1,0>> = +inf, <<-1,0>> =     *)
(* -inf, <<0,0>> = NaN).  Every arithmetic operation is the rational       *)
(* operation followed by rounding to the format in force (fl).             *)
(***************************************************************************)
EXTENDS Integers, Sequences, FiniteSets, TLC

VARIABLES
    pc,        \* position in main, a callback or the limiter harness
    eps,       \* user.eps
    limiter,   \* LimiterType chosen by -ad3_limiter
    prob,      \* the problem whose a_fcn, g_fcn, b_fcn the context holds
    created,   \* DMDACreate3d has been called
    solving,   \* SNESSolve has been called
    box,       \* DMDALocalInfo: this process's owned box
    fid,       \* the trial field SNES hands to the callback
    cur,       \* FormFunctionLocal's loop position <<k, j, i>>
    aF,        \* the residual array of this process
    log,       \* what the last loop iteration read, wrote and computed
    prec,      \* arithmetic format in force: 0 = unrounded, p = p-bit floats
    theta,     \* limiter harness: the argument
    lres,      \* limiter harness: the value returned
    auex,      \* FormLayerUExact: the array of the exact solution
    frame      \* FormLayerUExact: its locals k, j, i, z, y

vars == <<pc, eps, limiter, prob, created, solving, box, fid, cur, aF, log,
          prec, theta, lres,
         auex, frame>>

(***************************************************************************)
(* Bounds of the model.                                                    *)
(***************************************************************************)
Prec == 3        \* mantissa bits of the floating-point format of SpecLim
EMax == 3        \* largest exponent of a mantissa unit
EMinMag == 3     \* the smallest exponent is -EMinMag

(***************************************************************************)
(* Rational arithmetic.                                                    *)
(***************************************************************************)
Abs(n) == IF n < 0 THEN -n ELSE n

Sgn(n) == IF n < 0 THEN -1 ELSE IF n > 0 THEN 1 ELSE 0

RECURSIVE GCD(_, _)
GCD(a, b) == IF b = 0 THEN a ELSE GCD(b, a % b)

Q(n, d) ==
    IF d = 0 THEN <<Sgn(n), 0>>
    ELSE LET g == GCD(Abs(n), Abs(d))
             s == IF d < 0 THEN -1 ELSE 1
         IN  <<(s * n) \div g, (s * d) \div g>>

R(n) == <<n, 1>>

NaN == <<0, 0>>
Zero == <<0, 1>>
One == <<1, 1>>
Half == <<1, 2>>

IsFinite(x) == x[2] # 0

RNeg(x) == <<-x[1], x[2]>>

RAbs(x) == <<Abs(x[1]), x[2]>>

RAdd(x, y) ==
    IF x = NaN \/ y = NaN THEN NaN
    ELSE IF ~IsFinite(x) THEN (IF ~IsFinite(y) /\ y # x THEN NaN ELSE x)
    ELSE IF ~IsFinite(y) THEN y
    ELSE Q(x[1] * y[2] + y[1] * x[2], x[2] * y[2])

RSub(x, y) == RAdd(x, RNeg(y))

RMul(x, y) ==
    IF x = NaN \/ y = NaN THEN NaN
    ELSE IF ~IsFinite(x) \/ ~IsFinite(y)
         THEN <<Sgn(x[1]) * Sgn(y[1]), 0>>        \* inf * 0 = NaN
    ELSE Q(x[1] * y[1], x[2] * y[2])

RDiv(x, y) ==
    IF x = NaN \/ y = NaN THEN NaN
    ELSE IF ~IsFinite(x) THEN (IF ~IsFinite(y) THEN NaN
                               ELSE <<x[1] * (IF y[1] < 0 THEN -1 ELSE 1), 0>>)
    ELSE IF ~IsFinite(y) THEN Zero
    ELSE IF y[1] = 0 THEN <<Sgn(x[1]), 0>>        \* x/0 = inf, 0/0 = NaN
    ELSE Q(x[1] * y[2], x[2] * y[1])

\* comparisons of doubles: false whenever an operand is NaN
RLt(x, y) ==
    /\ x # NaN /\ y # NaN /\ x # y
    /\ IF ~IsFinite(x) THEN x[1] < 0
       ELSE IF ~IsFinite(y) THEN y[1] > 0
       ELSE x[1] * y[2] < y[1] * x[2]

RLe(x, y) == x # NaN /\ y # NaN /\ (x = y \/ RLt(x, y))

REq(x, y) == x # NaN /\ y # NaN /\ x = y

(***************************************************************************)
(* Rounding to a binary floating-point format with p mantissa bits,        *)
(* exponents -EMinMag .. EMax, gradual underflow, round to nearest even    *)
(* and overflow to infinity: IEEE 754 at the model's width.                *)
(***************************************************************************)
RECURSIVE Pow2(_)
Pow2(e) == IF e = 0 THEN 1 ELSE 2 * Pow2(e - 1)

\* 2^e as a rational, e of either sign
Ulp(e) == IF e >= 0 THEN <<Pow2(e), 1>> ELSE <<1, Pow2(-e)>>

MaxFloat(p) == <<(Pow2(p) - 1) * Pow2(EMax), 1>>

\* the exponent of a's unit in the last place: the largest e with
\* 2^(p-1) * 2^e <= a, and -EMinMag for the subnormals
RECURSIVE ExpOf(_, _, _)
ExpOf(a, p, e) ==
    IF e <= -EMinMag THEN -EMinMag
    ELSE IF RLe(RMul(R(Pow2(p - 1)), Ulp(e)), a) THEN e
    ELSE ExpOf(a, p, e - 1)

\* the integer nearest to the non-negative rational t, ties to even
RoundEven(t) ==
    LET f == t[1] \div t[2]
        r2 == 2 * (t[1] % t[2])
    IN  IF r2 < t[2] THEN f
        ELSE IF r2 > t[2] THEN f + 1
        ELSE IF f % 2 = 0 THEN f ELSE f + 1

\* the multiple v of a's unit in the last place nearest to x, with x's sign,
\* or an infinity when it exceeds the largest value of the format
Clamp(x, p, v) ==
    IF RLt(MaxFloat(p), v) THEN <<Sgn(x[1]), 0>>
    ELSE IF x[1] < 0 THEN RNeg(v) ELSE v

RoundAt(x, p, u) == Clamp(x, p, RMul(R(RoundEven(RDiv(RAbs(x), u))), u))

Round(x, p) ==
    IF ~IsFinite(x) \/ x[1] = 0 THEN x
    ELSE RoundAt(x, p, Ulp(ExpOf(RAbs(x), p, EMax + 1)))

fl(x) == IF prec = 0 THEN x ELSE Round(x, prec)

\* the arithmetic of doubles
Add(x, y) == fl(RAdd(x, y))
Sub(x, y) == fl(RSub(x, y))
Mul(x, y) == fl(RMul(x, y))
Div(x, y) == fl(RDiv(x, y))

\* every value of the p-bit format
Floats(p) ==
    LET pos == { RMul(R(m), Ulp(e)) : m \in 1..(Pow2(p) - 1), e \in (-EMinMag)..EMax }
    IN  pos \cup { RNeg(x) : x \in pos } \cup {Zero}

(***************************************************************************)
(* The limiters (ad3.c lines 57-69).                                       *)
(***************************************************************************)
centered(th) == Half

vanleerNoHalf(th) ==
    LET abstheta == RAbs(th)
    IN  Div(Add(th, abstheta), Add(One, abstheta))

vanleer(th) ==
    LET abstheta == RAbs(th)
    IN  Div(Mul(Half, Add(th, abstheta)), Add(One, abstheta))

LimiterType == {"NONE", "CENTERED", "VANLEER"}

\* limiterptr[limiter] applied to theta; NONE is the NULL pointer
limiter_fcn(lim, th) ==
    CASE lim = "CENTERED" -> centered(th)
      [] lim = "VANLEER" -> vanleer(th)
      [] OTHER -> NaN       \* a call through NULL; line 208 excludes it

(***************************************************************************)
(* Input bounds of the model.                                              *)
(***************************************************************************)
CutX == 3        \* where a two-way split along x cuts
CutY == 3        \* where a two-way split along y cuts
CutZ == 2        \* where a two-way split along z cuts
NFields == 4     \* number of trial fields
NVals == 3       \* a trial field takes the values 0 .. NVals-1

None == <<>>     \* "not computed"

(***************************************************************************)
(* The grid main creates (lines 272-282) and its decompositions.           *)
(***************************************************************************)
mx == 6
my == 6

mz(lim) == IF lim = "NONE" THEN 6 ELSE 5

StencilWidthCentered1(lim) == IF lim = "VANLEER" THEN 2 ELSE 1

StencilWidth(lim) == IF lim = "NONE" THEN 1 ELSE 2

\* <<start, width>> of the pieces an axis of m cells is cut into: the whole
\* axis (one process along it) or the two pieces of a split at c
Pieces(m, c) == {<<0, m>>, <<0, c>>, <<c, m - c>>}

\* the owned boxes PETSC_DECIDE can hand this process
Boxes(lim) ==
    { [xs |-> px[1], xm |-> px[2], ys |-> py[1], ym |-> py[2],
       zs |-> pz[1], zm |-> pz[2]] :
        px \in Pieces(mx, CutX), py \in Pieces(my, CutY),
        pz \in Pieces(mz(lim), CutZ) }

WholeBox(lim) ==
    [xs |-> 0, xm |-> mx, ys |-> 0, ym |-> my, zs |-> 0, zm |-> mz(lim)]

Owned(B) ==
    { <<k, j, i>> : k \in B.zs..(B.zs + B.zm - 1), j \in B.ys..(B.ys + B.ym - 1),
                    i \in B.xs..(B.xs + B.xm - 1) }

\* cells whose residual is a Dirichlet condition (lines 178-181)
IsDirichlet(j, i) == i = mx - 1 \/ i = 0 \/ j = 0 \/ j = my - 1

(***************************************************************************)
(* The problem in the context: wind a, source g, boundary value b.  The    *)
(* callback takes them through the context's function pointers; "layer"    *)
(* has the wind of layer_a, the other two are winds of other signs.        *)
(***************************************************************************)
Problems == {"layer", "reverse", "glaze"}

layer_a(x, y, z, q) == IF q = 0 THEN One ELSE Zero

a_wind(x, y, z, q) ==
    CASE prob = "layer" -> layer_a(x, y, z, q)
      [] prob = "reverse" -> R(-1)
      [] prob = "glaze" -> (CASE q = 0 -> Mul(R(2), y)
                              [] q = 1 -> Mul(R(-2), x)
                              [] q = 2 -> One)

\* b vanishes at y = -1 and y = 1 in "layer" (as layer_b does) and in
\* "glaze", and is 1 everywhere in "reverse"
b_bdry(y, z) ==
    CASE prob = "layer" -> Mul(Sub(One, Mul(y, y)), Add(R(2), z))
      [] prob = "reverse" -> One
      [] prob = "glaze" -> Sub(One, Mul(y, y))

g_source(x, y, z, uu) ==
    CASE prob = "layer" -> uu
      [] prob = "reverse" -> Zero
      [] prob = "glaze" -> One

(***************************************************************************)
(* Grid spacing and coordinates (lines 153-161, 170-174).                  *)
(***************************************************************************)
hx == Div(R(2), R(mx - 1))
hy == Div(R(2), R(my - 1))
hz == Div(R(2), R(mz(limiter)))
halfx == Div(hx, R(2))
halfy == Div(hy, R(2))
halfz == Div(hz, R(2))
hx2 == Mul(hx, hx)
hy2 == Mul(hy, hy)
hz2 == Mul(hz, hz)

xOf(i) == Add(R(-1), Mul(R(i), hx))
yOf(j) == Add(R(-1), Mul(R(j), hy))
zOf(k) == Add(R(-1), Mul(Add(R(k), Half), hz))

(***************************************************************************)
(* The trial field.  SNES starts from u = 0 and then hands the callback    *)
(* iterates the model does not compute: field 0 is zero, an odd field is   *)
(* arbitrary, an even field meets the boundary conditions.                 *)
(***************************************************************************)
Fields == 0..(NFields - 1)

Scatter(f, k, j, i) ==
    ((f + 1) * i * i + (f + 2) * j + (2 * f + 1) * k + f * i * j + i * j * k) % NVals

Field(f, k, j, i) ==
    IF f = 0 THEN Zero
    ELSE IF f % 2 = 1 THEN R(Scatter(f, k, j, i))
    ELSE IF i = mx - 1 THEN b_bdry(yOf(j), zOf(k))
    ELSE IF i = 0 \/ j = 0 \/ j = my - 1 THEN Zero
    ELSE R(Scatter(f, k, j, i))

\* the cells of the ghosted local array of box B with stencil width w
\* (DMDA_STENCIL_STAR): the owned box extended along one axis at a time,
\* without ghosts beyond the domain in x and y, periodic in z
InLocal(B, w, c) ==
    LET inz == c[1] >= B.zs /\ c[1] < B.zs + B.zm
        iny == c[2] >= B.ys /\ c[2] < B.ys + B.ym
        inx == c[3] >= B.xs /\ c[3] < B.xs + B.xm
        gz == c[1] >= B.zs - w /\ c[1] < B.zs + B.zm + w
        gy == c[2] >= B.ys - w /\ c[2] < B.ys + B.ym + w
                /\ c[2] >= 0 /\ c[2] <= my - 1
        gx == c[3] >= B.xs - w /\ c[3] < B.xs + B.xm + w
                /\ c[3] >= 0 /\ c[3] <= mx - 1
    IN  (inz /\ iny /\ gx) \/ (inz /\ gy /\ inx) \/ (gz /\ iny /\ inx)

\* au[k][j][i]: the ghosts hold the global field, z wrapping; a read outside
\* the local array yields no value of the field
au(B, c) ==
    IF InLocal(B, StencilWidth(limiter), c)
    THEN Field(fid, c[1] % mz(limiter), c[2], c[3])
    ELSE NaN

(***************************************************************************)
(* FormFunctionLocal (lines 145-243).  A cell is <<k, j, i>>, as in        *)
(* aF[k][j][i]; B is the owned box of info.                                *)
(***************************************************************************)
\* the residual array holds the owned cells only
Store(F, c, v) == IF c \in DOMAIN F THEN [F EXCEPT ![c] = v] ELSE F

Load(F, c) == IF c \in DOMAIN F THEN F[c] ELSE NaN

Shift(c, q, n) ==
    <<c[1] + (IF q = 2 THEN n ELSE 0), c[2] + (IF q = 1 THEN n ELSE 0),
      c[3] + (IF q = 0 THEN n ELSE 0)>>

\* lines 164-167
ClearF(B) == [c \in Owned(B) |-> Zero]

\* lines 178-181: the value a Dirichlet cell's residual is set to
DirichletForgetB(i, u, b) == u

DirichletResidual(i, u, b) == IF i = mx - 1 THEN Sub(u, b) ELSE u

\* lines 183-192: the residual of an interior cell, from its value uu, its
\* neighbours' values and the source g
Interior(F, c, uu, uE, uW, uN, uS, uB, uT, g) ==
    Store(F, c,
          Sub(Load(F, c),
              Add(Mul(eps, Add(Add(Div(Add(Sub(uW, Mul(R(2), uu)), uE), hx2),
                                   Div(Add(Sub(uS, Mul(R(2), uu)), uN), hy2)),
                               Div(Add(Sub(uB, Mul(R(2), uu)), uT), hz2))),
                  g)))

InteriorAt(F, B, c, k, j, i, b, uu) ==
    Interior(F, c, uu,
             IF i = mx - 2 THEN b ELSE au(B, <<k, j, i + 1>>),
             IF i = 1 THEN Zero ELSE au(B, <<k, j, i - 1>>),
             IF j = my - 2 THEN Zero ELSE au(B, <<k, j + 1, i>>),
             IF j = 1 THEN Zero ELSE au(B, <<k, j - 1, i>>),
             au(B, <<k - 1, j, i>>), au(B, <<k + 1, j, i>>),
             g_source(xOf(i), yOf(j), zOf(k), uu))

InteriorReads(k, j, i) ==
    {<<k, j, i>>, <<k - 1, j, i>>, <<k + 1, j, i>>}
        \cup (IF i = mx - 2 THEN {} ELSE {<<k, j, i + 1>>})
        \cup (IF i = 1 THEN {} ELSE {<<k, j, i - 1>>})
        \cup (IF j = my - 2 THEN {} ELSE {<<k, j + 1, i>>})
        \cup (IF j = 1 THEN {} ELSE {<<k, j - 1, i>>})

\* lines 177-194: the non-advective part of the residual at cell c
NonAdvectiveAt(F, B, c, k, j, i) ==
    IF k < B.zs THEN [F |-> F, reads |-> {}, writes |-> {}]
    ELSE IF IsDirichlet(j, i)
    THEN [F |-> Store(F, c, DirichletResidual(i, au(B, c),
                                              b_bdry(yOf(j), zOf(k)))),
          reads |-> {c}, writes |-> {c}]
    ELSE [F |-> InteriorAt(F, B, c, k, j, i, b_bdry(yOf(j), zOf(k)), au(B, c)),
          reads |-> InteriorReads(k, j, i), writes |-> {c}]

NonAdvective(F, B, c) == NonAdvectiveAt(F, B, c, c[1], c[2], c[3])

\* line 207
Deep(j, i) == i > 1 /\ i < mx - 2 /\ j > 1 /\ j < my - 2

\* line 208: whether the limiter correction is attempted
UseLimiterNoNullCheck(lim, deep) == deep

UseLimiter(lim, deep) == lim # "NONE" /\ deep

\* line 210: whether theta is computed
NonDegenerateAlways(u_dn, u_up) == TRUE

NonDegenerate(u_dn, u_up) == u_dn # u_up

\* line 204: the wind at the midpoint of the face of cell c in direction q
FaceWind(q, c) ==
    a_wind(Add(xOf(c[3]), IF q = 0 THEN halfx ELSE Zero),
           Add(yOf(c[2]), IF q = 1 THEN halfy ELSE Zero),
           Add(zOf(c[1]), IF q = 2 THEN halfz ELSE Zero), q)

\* lines 205, 209, 211-212: the cells of u_up, u_dn and u_far under wind a
UpwindCell(c, q, a) == IF RLe(Zero, a) THEN c ELSE Shift(c, q, 1)

DownwindCell(c, q, a) == IF RLe(Zero, a) THEN Shift(c, q, 1) ELSE c

FarUpwindCell(c, q, a) == IF RLe(Zero, a) THEN Shift(c, q, -1) ELSE Shift(c, q, 2)

\* lines 213-214: the limited flux, den = u_dn - u_up, th = theta
Limited(q, a, upC, dnC, farC, u_up, u_dn, den, th) ==
    [q |-> q, a |-> a, upC |-> upC, u_up |-> u_up, u_dn |-> u_dn,
     den |-> den, theta |-> th, called |-> TRUE,
     flux |-> Add(Mul(a, u_up), Mul(Mul(a, limiter_fcn(limiter, th)), den)),
     acc |-> {}, reads |-> {upC, dnC, farC}]

LimitedBy(q, a, upC, dnC, farC, u_up, u_dn, u_far, den) ==
    Limited(q, a, upC, dnC, farC, u_up, u_dn, den, Div(Sub(u_up, u_far), den))

\* lines 206-216
FluxOf(q, c, a, upC, dnC, farC, u_up, u_dn, u_far) ==
    IF UseLimiter(limiter, Deep(c[2], c[3]))
    THEN IF NonDegenerate(u_dn, u_up)
         THEN LimitedBy(q, a, upC, dnC, farC, u_up, u_dn, u_far, Sub(u_dn, u_up))
         ELSE [q |-> q, a |-> a, upC |-> upC, u_up |-> u_up, u_dn |-> u_dn,
               den |-> None, theta |-> None, called |-> FALSE,
               flux |-> Mul(a, u_up), acc |-> {}, reads |-> {upC, dnC}]
    ELSE [q |-> q, a |-> a, upC |-> upC, u_up |-> u_up, u_dn |-> None,
          den |-> None, theta |-> None, called |-> FALSE,
          flux |-> Mul(a, u_up), acc |-> {}, reads |-> {upC}]

FluxAt(B, q, c, a, upC, dnC, farC) ==
    FluxOf(q, c, a, upC, dnC, farC, au(B, upC), au(B, dnC), au(B, farC))

FluxUnder(B, q, c, a) ==
    FluxAt(B, q, c, a, UpwindCell(c, q, a), DownwindCell(c, q, a),
           FarUpwindCell(c, q, a))

\* lines 201-216: the flux at the face of cell c in direction q
FaceFlux(B, q, c) == FluxUnder(B, q, c, FaceWind(q, c))

\* lines 218-237: the switch on q has the labels 0, 1 and 3
\* the guard of the update of the cell's own residual
OwnSide(B, q, c) ==
    CASE q = 0 -> c[3] > 0
      [] q = 1 -> c[2] > 0
      [] q = 3 -> c[1] >= B.zs
      [] OTHER -> FALSE

FarSideNotOwned(B, q, c) ==
    CASE q = 0 -> c[3] < mx - 1
      [] q = 1 -> c[2] < my - 1
      [] q = 3 -> TRUE
      [] OTHER -> FALSE

\* the guard of the update of the residual across the face
FarSide(B, q, c) ==
    CASE q = 0 -> c[3] < mx - 1 /\ c[3] + 1 < B.xs + B.xm
      [] q = 1 -> c[2] < my - 1 /\ c[2] + 1 < B.ys + B.ym
      [] q = 3 -> c[1] + 1 < B.zs + B.zm
      [] OTHER -> FALSE

FarCell(q, c) ==
    CASE q = 0 -> <<c[1], c[2], c[3] + 1>>
      [] q = 1 -> <<c[1], c[2] + 1, c[3]>>
      [] OTHER -> <<c[1] + 1, c[2], c[3]>>

Spacing(q) == CASE q = 0 -> hx [] q = 1 -> hy [] OTHER -> hz

\* acc: the updates made, as <<cell, amount added>>
AccumulateBy(F, B, q, c, n, d) ==
    [F |-> IF FarSide(B, q, c)
           THEN (IF OwnSide(B, q, c)
                 THEN Store(Store(F, c, Add(Load(F, c), d)), n,
                            Sub(Load(Store(F, c, Add(Load(F, c), d)), n), d))
                 ELSE Store(F, n, Sub(Load(F, n), d)))
           ELSE (IF OwnSide(B, q, c) THEN Store(F, c, Add(Load(F, c), d)) ELSE F),
     acc |-> (IF OwnSide(B, q, c) THEN {<<c, d>>} ELSE {})
             \cup (IF FarSide(B, q, c) THEN {<<n, RNeg(d)>>} ELSE {})]

Accumulate(F, B, q, c, flux) ==
    AccumulateBy(F, B, q, c, FarCell(q, c), Div(flux, Spacing(q)))

\* lines 199-238: one pass of the loop over q
FaceStepDone(S, f, u) ==
    [F |-> u.F, reads |-> S.reads \cup f.reads,
     writes |-> S.writes \cup { w[1] : w \in u.acc },
     faces |-> Append(S.faces, [f EXCEPT !.acc = u.acc])]

FaceStepWith(S, B, q, c, f) ==
    FaceStepDone(S, f, Accumulate(S.F, B, q, c, f.flux))

FaceStep(S, B, q, c) ==
    IF q < 2 /\ c[1] < B.zs THEN S
    ELSE FaceStepWith(S, B, q, c, FaceFlux(B, q, c))

\* line 195: continue
FacesFrom(n, B, c) ==
    IF c[3] = mx - 1 \/ c[2] = my - 1
    THEN [F |-> n.F, reads |-> n.reads, writes |-> n.writes, faces |-> <<>>]
    ELSE FaceStep(FaceStep(FaceStep([F |-> n.F, reads |-> n.reads,
                                     writes |-> n.writes, faces |-> <<>>],
                                    B, 0, c), B, 1, c), B, 2, c)

\* lines 170-239: the body of the loop over k, j, i at cell c
CellIter(F, B, c) == FacesFrom(NonAdvective(F, B, c), B, c)

\* the loop nest of lines 169-173: k from zs-1, then j, then i
FirstCell(B) == <<B.zs - 1, B.ys, B.xs>>

LastCell(B) == <<B.zs + B.zm - 1, B.ys + B.ym - 1, B.xs + B.xm - 1>>

NextCell(B, c) ==
    IF c[3] < B.xs + B.xm - 1 THEN <<c[1], c[2], c[3] + 1>>
    ELSE IF c[2] < B.ys + B.ym - 1 THEN <<c[1], c[2] + 1, B.xs>>
    ELSE <<c[1] + 1, B.ys, B.xs>>

\* the residual FormFunctionLocal returns on box B: the loop over i, inside
\* the loop over j, inside the loop over k
RECURSIVE LoopI(_, _, _, _, _)
LoopI(F, B, k, j, i) ==
    LET G == CellIter(F, B, <<k, j, i>>).F
    IN  IF i >= B.xs + B.xm - 1 \/ DOMAIN G # DOMAIN F THEN G
        ELSE LoopI(G, B, k, j, i + 1)

RECURSIVE LoopJ(_, _, _, _)
LoopJ(F, B, k, j) ==
    LET G == LoopI(F, B, k, j, B.xs)
    IN  IF j >= B.ys + B.ym - 1 \/ DOMAIN G # DOMAIN F THEN G
        ELSE LoopJ(G, B, k, j + 1)

RECURSIVE LoopK(_, _, _)
LoopK(F, B, k) ==
    LET G == LoopJ(F, B, k, B.ys)
    IN  IF k >= B.zs + B.zm - 1 \/ DOMAIN G # DOMAIN F THEN G
        ELSE LoopK(G, B, k + 1)

Assemble(B) == LoopK(ClearF(B), B, B.zs - 1)

(***************************************************************************)
(* main (lines 245-325) and the callback's steps.                          *)
(***************************************************************************)
EpsOptions == {R(-1), Zero, Half, One}

\* line 264
EpsInvalidStrict(e) == RLt(e, Zero)

EpsInvalid(e) == RLe(e, Zero)

NoLog == [cell |-> None, reads |-> {}, writes |-> {}, faces |-> <<>>]

\* lines 256-259: the defaults, before the options are read
Init ==
    /\ pc = "options"
    /\ eps = One
    /\ limiter = "CENTERED"
    /\ prob \in Problems
    /\ created = FALSE
    /\ solving = FALSE
    /\ box = None
    /\ fid = 0
    /\ cur = None
    /\ aF = <<>>
    /\ log = NoLog
    /\ prec = 0
    /\ theta = Zero
    /\ lres = None
    /\ auex = <<>>
    /\ frame = None

\* lines 262-263: -ad3_eps
OptionsEps ==
    /\ pc = "options"
    /\ eps' \in EpsOptions
    /\ pc' = "check_eps"
    /\ UNCHANGED <<limiter, prob, created, solving, box, fid, cur, aF, log,
                   prec, theta, lres, auex, frame>>

\* lines 264-266: SETERRQ1 leaves main
RejectEps ==
    /\ pc = "check_eps"
    /\ EpsInvalid(eps)
    /\ pc' = "error"
    /\ UNCHANGED <<eps, limiter, prob, created, solving, box, fid, cur, aF, log,
                   prec, theta, lres, auex, frame>>

\* lines 267-272: -ad3_limiter
OptionsLimiter ==
    /\ pc = "check_eps"
    /\ ~EpsInvalid(eps)
    /\ limiter' \in LimiterType
    /\ pc' = "create"
    /\ UNCHANGED <<eps, prob, created, solving, box, fid, cur, aF, log,
                   prec, theta, lres, auex, frame>>

\* lines 274-293: DMDACreate3d .. DMDAGetLocalInfo
CreateGrid ==
    /\ pc = "create"
    /\ created' = TRUE
    /\ box' \in Boxes(limiter)
    /\ pc' = "solve"
    /\ UNCHANGED <<eps, limiter, prob, solving, fid, cur, aF, log,
                   prec, theta, lres, auex, frame>>

\* lines 295-303: SNESSolve calls the callback with a trial field
SNESSolve ==
    /\ pc = "solve"
    /\ solving' = TRUE
    /\ fid' \in Fields
    /\ pc' = "ffl_clear"
    /\ UNCHANGED <<eps, limiter, prob, created, box, cur, aF, log,
                   prec, theta, lres, auex, frame>>

\* lines 164-167
FFL_Clear ==
    /\ pc = "ffl_clear"
    /\ aF' = ClearF(box)
    /\ log' = [NoLog EXCEPT !.writes = Owned(box)]
    /\ cur' = FirstCell(box)
    /\ pc' = "ffl_loop"
    /\ UNCHANGED <<eps, limiter, prob, created, solving, box, fid,
                   prec, theta, lres, auex, frame>>

\* the state after a loop iteration whose outcome is s
Iterated(s) ==
    /\ aF' = s.F
    /\ log' = [cell |-> cur, reads |-> s.reads, writes |-> s.writes,
               faces |-> s.faces]

\* lines 169-241: one iteration of the loop nest; line 242 after the last
FFL_Cell ==
    /\ pc = "ffl_loop"
    /\ Iterated(CellIter(aF, box, cur))
    /\ IF cur = LastCell(box)
       THEN pc' = "ffl_return" /\ cur' = cur
       ELSE pc' = "ffl_loop" /\ cur' = NextCell(box, cur)
    /\ UNCHANGED <<eps, limiter, prob, created, solving, box, fid,
                   prec, theta, lres, auex, frame>>

\* lines 304-324: the solve is over, the error is reported
Finish ==
    /\ pc = "ffl_return"
    /\ pc' = "done"
    /\ UNCHANGED <<eps, limiter, prob, created, solving, box, fid, cur, aF, log,
                   prec, theta, lres, auex, frame>>

Next ==
    \/ OptionsEps
    \/ RejectEps
    \/ OptionsLimiter
    \/ CreateGrid
    \/ SNESSolve
    \/ FFL_Clear
    \/ FFL_Cell
    \/ Finish

Spec == Init /\ [][Next]_vars

(***************************************************************************)
(* The limiters on their own: every value of the floating-point format is  *)
(* handed to centered and to vanleer.                                      *)
(***************************************************************************)
InitLim ==
    /\ pc = "lim_arg"
    /\ prec = Prec
    /\ theta \in Floats(Prec)
    /\ lres = None
    /\ eps = One
    /\ limiter = "CENTERED"
    /\ prob = "layer"
    /\ created = FALSE
    /\ solving = FALSE
    /\ box = None
    /\ fid = 0
    /\ cur = None
    /\ aF = <<>>
    /\ log = NoLog
    /\ auex = <<>>
    /\ frame = None

CallCentered ==
    /\ pc = "lim_arg"
    /\ lres' = centered(theta)
    /\ pc' = "lim_centered"
    /\ UNCHANGED <<eps, limiter, prob, created, solving, box, fid, cur, aF, log,
                   prec, theta, auex, frame>>

CallVanleer ==
    /\ pc = "lim_arg"
    /\ lres' = vanleer(theta)
    /\ pc' = "lim_vanleer"
    /\ UNCHANGED <<eps, limiter, prob, created, solving, box, fid, cur, aF, log,
                   prec, theta, auex, frame>>

NextLim == CallCentered \/ CallVanleer

SpecLim == InitLim /\ [][NextLim]_vars

(***************************************************************************)
(* FormLayerUExact (lines 121-142) on one process's owned box.             *)
(***************************************************************************)
\* how far from zero the value read from the unassigned int j may lie
JunkMax == 2

\* line 123: int i, j, k are declared without a value
Indeterminate == (0 - JunkMax)..JunkMax

\* lines 100-104: the value layer_u returns, kept as the call it comes from
layer_u(x, y, z, e) == <<"layer_u", x, y, z, e>>

\* lines 126-128 (named for the variables they are assigned to)
uex_hx == Div(R(2), R(mx - 1))
uex_hz == Div(R(2), R(my))
uex_hy == Div(R(2), R(mz(limiter) - 1))

\* line 129: the array DMDAVecGetArray hands out, no cell written yet
Unwritten(B) == [c \in Owned(B) |-> None]

\* the context and grid FormLayerUExact is called with, and its locals
\* before line 126
InitUex ==
    /\ pc = "uex_k"
    /\ eps \in { e \in EpsOptions : ~EpsInvalid(e) }
    /\ limiter \in LimiterType
    /\ prob = "layer"
    /\ created = TRUE
    /\ solving = TRUE
    /\ box \in Boxes(limiter)
    /\ fid = 0
    /\ cur = None
    /\ aF = <<>>
    /\ log = NoLog
    /\ prec = 0
    /\ theta = Zero
    /\ lres = None
    /\ auex = Unwritten(box)
    /\ \E j0 \in Indeterminate :
          frame = [k |-> box.zs, j |-> j0, i |-> None, z |-> None, y |-> None]

\* lines 130-131: the test of the loop over k, then z from j
UexLoopK ==
    /\ pc = "uex_k"
    /\ IF frame.k < box.zs + box.zm
       THEN /\ frame' = [frame EXCEPT
                             !.z = Add(R(-1), Mul(R(frame.j), uex_hz)),
                             !.j = box.ys]
            /\ pc' = "uex_j"
       ELSE /\ frame' = frame
            /\ pc' = "uex_return"
    /\ UNCHANGED <<eps, limiter, prob, created, solving, box, fid, cur, aF, log,
                   prec, theta, lres, auex>>

\* lines 132-133: the test of the loop over j, then y; line 130's k++ after
\* the last j
UexLoopJ ==
    /\ pc = "uex_j"
    /\ IF frame.j < box.ys + box.ym
       THEN /\ frame' = [frame EXCEPT
                             !.y = Add(R(-1), Mul(Add(R(frame.j), Half), uex_hy)),
                             !.i = box.xs]
            /\ pc' = "uex_i"
       ELSE /\ frame' = [frame EXCEPT !.k = frame.k + 1]
            /\ pc' = "uex_k"
    /\ UNCHANGED <<eps, limiter, prob, created, solving, box, fid, cur, aF, log,
                   prec, theta, lres, auex>>

\* lines 134-137: the test of the loop over i, x and the store; line 132's
\* j++ after the last i
UexLoopI ==
    /\ pc = "uex_i"
    /\ IF frame.i < box.xs + box.xm
       THEN /\ auex' = Store(auex, <<frame.k, frame.j, frame.i>>,
                             layer_u(Add(R(-1), Mul(R(frame.i), uex_hx)),
                                     frame.y, frame.z, eps))
            /\ frame' = [frame EXCEPT !.i = frame.i + 1]
            /\ pc' = "uex_i"
       ELSE /\ auex' = auex
            /\ frame' = [frame EXCEPT !.j = frame.j + 1]
            /\ pc' = "uex_j"
    /\ UNCHANGED <<eps, limiter, prob, created, solving, box, fid, cur, aF, log,
                   prec, theta, lres>>

NextUex == UexLoopK \/ UexLoopJ \/ UexLoopI

SpecUex == InitUex /\ [][NextUex]_vars

(***************************************************************************)
(* Claims.                                                                 *)
(***************************************************************************)
InLoop == pc \in {"ffl_loop", "ffl_return"} /\ log.cell # None

Returned == pc = "ffl_return"

\* C1 (as claimed): when FormFunctionLocal returns on any owned box of a
\* decomposition, the residual of each owned cell equals the residual the
\* cell gets when the whole grid is assembled as one owned box.
C1_DecompositionInvariance ==
    Returned =>
        LET W == Assemble(WholeBox(limiter))
        IN  \A c \in Owned(box) : aF[c] = W[c]

\* C2 (as claimed): in a single-subdomain assembly every face between two
\* adjacent non-Dirichlet cells, along x, y and z (z wrapping), has its flux
\* divided by that axis's h added once to the lower cell's residual and
\* subtracted once from the higher cell's.  The face of cell c in direction q
\* is handled in c's loop iteration only; in the iteration plane k = -1 the
\* lower cell is the periodic image, updated in its own iteration k = mz-1.
C2_ConservativeAccumulation ==
    (InLoop /\ box = WholeBox(limiter)) =>
        \A n \in 1..Len(log.faces) :
            LET f == log.faces[n]
                c == log.cell
                h == Shift(c, f.q, 1)
                d == Div(f.flux, Spacing(f.q))
            IN  (~IsDirichlet(c[2], c[3]) /\ ~IsDirichlet(h[2], h[3])) =>
                    f.acc = (IF c[1] >= 0 THEN {<<c, d>>} ELSE {})
                            \cup (IF h[1] <= mz(limiter) - 1
                                  THEN {<<h, RNeg(d)>>} ELSE {})

\* C3 (as claimed): after FormFunctionLocal returns, every owned cell with
\* i = mx-1 has residual u - b(y,z) and every other owned Dirichlet cell has
\* residual u: no face flux remains accumulated in a Dirichlet cell.
C3_DirichletOverrides ==
    Returned =>
        \A c \in Owned(box) :
            IsDirichlet(c[2], c[3]) =>
                aF[c] = (IF c[3] = mx - 1
                         THEN Sub(au(box, c), b_bdry(yOf(c[2]), zOf(c[1])))
                         ELSE au(box, c))

\* the field meets the boundary conditions: u = b(y,z) on every cell with
\* i = mx-1 and u = 0 on every cell with i = 0, j = 0 or j = my-1
SatisfiesBC ==
    \A k \in 0..(mz(limiter) - 1), j \in 0..(my - 1), i \in 0..(mx - 1) :
        /\ i = mx - 1 => Field(fid, k, j, i) = b_bdry(yOf(j), zOf(k))
        /\ (i = 0 \/ j = 0 \/ j = my - 1) => Field(fid, k, j, i) = Zero

\* C4: for a field that meets the boundary conditions, whatever its interior
\* values, the wind and the limiter, the residual of every owned Dirichlet
\* cell is exactly zero when FormFunctionLocal returns.
C4_BoundaryInjection ==
    (Returned /\ SatisfiesBC) =>
        \A c \in Owned(box) : IsDirichlet(c[2], c[3]) => aF[c] = Zero

\* C4's case: the field meets the boundary conditions with b not zero on an
\* owned cell of the x = +1 face, the interior is not zero, the wind has
\* components of both signs and a limiter is in use.
C4_Witness ==
    /\ Returned /\ SatisfiesBC
    /\ prob = "glaze" /\ limiter = "VANLEER"
    /\ \E c \in Owned(box) : c[3] = mx - 1 /\ au(box, c) # Zero
    /\ \E c \in Owned(box) : ~IsDirichlet(c[2], c[3]) /\ au(box, c) # Zero
    /\ \E c \in Owned(box) : c[2] = 0 /\ c[3] \in 1..(mx - 2)

\* C5: with the limiter none, the flux computed at every face is a*u_up,
\* u_up being the value of cell (i,j,k) when a >= 0 and of the neighbour in
\* the face's direction when a < 0, and no limiter function is called.
C5_UpwindReduction ==
    (InLoop /\ limiter = "NONE") =>
        \A n \in 1..Len(log.faces) :
            LET f == log.faces[n]
            IN  /\ f.u_up = au(box, UpwindCell(log.cell, f.q, f.a))
                /\ f.flux = Mul(f.a, f.u_up)
                /\ ~f.called

\* C5's case: with the limiter none, a deep cell (where a limiter would
\* act) whose three faces have been computed, one of them with a negative
\* wind and a neighbour value that differs from the cell's.
C5_Witness ==
    /\ InLoop /\ limiter = "NONE"
    /\ Deep(log.cell[2], log.cell[3])
    /\ Len(log.faces) = 3
    /\ \E n \in 1..3 :
        /\ RLt(log.faces[n].a, Zero)
        /\ log.faces[n].flux # Zero
        /\ au(box, log.cell) # log.faces[n].u_up

\* C6: at every face and for every limiter, when u_dn = u_up the flux is
\* the upwind flux a*u_up and theta is not computed; whenever the division
\* for theta is performed its denominator is not zero.
C6_DegenerateRatio ==
    InLoop =>
        \A n \in 1..Len(log.faces) :
            LET f == log.faces[n]
                u_dn == au(box, DownwindCell(log.cell, f.q, f.a))
            IN  /\ u_dn = f.u_up =>
                    (f.flux = Mul(f.a, f.u_up) /\ f.theta = None /\ f.den = None)
                /\ f.theta # None => (f.den # None /\ f.den # Zero)

\* C6's case: under a limiter, a face of a deep cell with a non-zero wind
\* whose downwind and upwind values are equal and not zero, so that the
\* correction is skipped where theta would divide by zero.
C6_Witness ==
    /\ InLoop /\ limiter = "VANLEER"
    /\ Deep(log.cell[2], log.cell[3])
    /\ \E n \in 1..Len(log.faces) :
        LET f == log.faces[n]
        IN  /\ f.u_dn = f.u_up /\ f.u_up # Zero /\ f.a # Zero
            /\ f.flux = Mul(f.a, f.u_up)

\* C7 (as claimed): for every finite theta, vanleer(theta) lies in [0,1),
\* is 0 for theta <= 0 and theta/(1+theta) for theta >= 0, and
\* centered(theta) is 0.5.
C7_LimiterBounds ==
    /\ pc = "lim_centered" => lres = Half
    /\ pc = "lim_vanleer" =>
        /\ RLe(Zero, lres) /\ RLt(lres, One)
        /\ RLe(theta, Zero) => lres = Zero
        /\ RLe(Zero, theta) => lres = Div(theta, Add(One, theta))

\* C7 (amended): for every finite theta, centered(theta) is 0.5 and
\* vanleer(theta) is 0 for theta <= 0; for theta >= 0 whose double
\* theta + theta does not overflow, vanleer(theta) is the floating-point
\* quotient theta/(1+theta) and lies in the closed interval [0,1].
C7_LimiterBoundsRounded ==
    /\ pc = "lim_centered" => lres = Half
    /\ pc = "lim_vanleer" =>
        /\ RLe(theta, Zero) => lres = Zero
        /\ (RLe(Zero, theta) /\ RLe(RAdd(theta, theta), MaxFloat(prec))) =>
            /\ lres = Div(theta, Add(One, theta))
            /\ RLe(Zero, lres) /\ RLe(lres, One)

\* C7's case: vanleer has returned exactly 1 for a finite positive theta,
\* the sum 1 + theta having rounded to theta.
C7_Witness ==
    /\ pc = "lim_vanleer"
    /\ RLt(Zero, theta) /\ IsFinite(theta)
    /\ Add(One, theta) = theta
    /\ lres = One

\* C8: if eps <= 0 after the options are read, main stops with an error
\* before DMDACreate3d, and neither SNESSolve nor FormFunctionLocal is
\* reached; with eps > 0 main goes on to create the grid and to solve.
C8_RejectBeforeGrid ==
    /\ [](/\ pc = "error" => (RLe(eps, Zero) /\ ~created /\ ~solving /\ aF = <<>>)
          /\ created => RLt(Zero, eps)
          /\ solving => (created /\ RLt(Zero, eps))
          /\ pc \in {"ffl_clear", "ffl_loop", "ffl_return", "done"} => solving)
    /\ [][pc = "check_eps" =>
            IF RLe(eps, Zero) THEN pc' = "error" ELSE pc' = "create"]_vars
    /\ [][pc = "create" => (pc' = "solve" /\ created')]_vars
    /\ [][pc = "solve" => (pc' = "ffl_clear" /\ solving')]_vars

\* C8's case: main has stopped with an error on eps = 0, no grid created.
C8_Witness == pc = "error" /\ eps = Zero /\ ~created

\* C9: every element of the residual array that FormFunctionLocal writes,
\* in the clearing loop and in any loop iteration (Dirichlet injection,
\* diffusive and source term, flux accumulation on either side of a face,
\* the plane k = zs-1 included), lies in the process's owned box.
C9_SingleWriter ==
    pc \in {"ffl_loop", "ffl_return"} => log.writes \subseteq Owned(box)

\* C9's case: an iteration at the high x edge of an owned box that is not
\* the domain's edge, where the east face's far side belongs to another
\* process: the face's flux went to the owned side only.
C9_Witness ==
    /\ InLoop
    /\ log.cell[3] = box.xs + box.xm - 1 /\ log.cell[3] < mx - 1
    /\ log.cell[2] > 0 /\ log.cell[2] < box.ys + box.ym - 1
    /\ Len(log.faces) = 3
    /\ log.faces[1].acc = {<<log.cell, Div(log.faces[1].flux, hx)>>}
    /\ log.faces[1].flux # Zero

\* C10: every element of u that FormFunctionLocal reads lies in the owned
\* box extended by the stencil width main configures (1 for no limiter, 2
\* for centered and vanleer) along a single axis, with 0 <= i <= mx-1 and
\* 0 <= j <= my-1.
C10_HaloCoversReach ==
    InLoop =>
        \A r \in log.reads :
            /\ InLocal(box, StencilWidth(limiter), r)
            /\ r[3] >= 0 /\ r[3] <= mx - 1
            /\ r[2] >= 0 /\ r[2] <= my - 1

\* C10's case: under a limiter, an iteration read the far-upwind value two
\* cells outside the owned box, along z or along x.
C10_Witness ==
    /\ InLoop /\ limiter # "NONE"
    /\ \E r \in log.reads :
        \/ r[1] = box.zs - 2
        \/ r[1] = box.zs + box.zm + 1
        \/ r[3] = box.xs - 2
        \/ r[3] = box.xs + box.xm + 1

\* C11 (as claimed): every cell FormLayerUExact has written holds layer_u at
\* the coordinates FormFunctionLocal gives that cell: x = -1 + i*hx with
\* hx = 2/(mx-1), y = -1 + j*hy with hy = 2/(my-1), z = -1 + (k+0.5)*hz with
\* hz = 2/mz, and when it returns every owned cell has been written.
C11_ExactCoordinates ==
    /\ pc \in {"uex_k", "uex_j", "uex_i", "uex_return"} =>
          \A c \in Owned(box) :
              auex[c] # None =>
                  auex[c] = layer_u(xOf(c[3]), yOf(c[2]), zOf(c[1]), eps)
    /\ pc = "uex_return" => \A c \in Owned(box) : auex[c] # None

====
